---- MODULE Spec2Model ----
(***************************************************************************)
(* A model of bot.py: the editorial-brief Telegram bot.                    *)
(*                                                                         *)
(* Text is modelled as a sequence of one-character strings, so that the    *)
(* Classifier's fence stripping and JSON parsing, and the int() conversion *)
(* of the /pages arguments, are computed character by character as the     *)
(* code computes them.  A document is identified by its transport file id; *)
(* an image is the record of the document, the page and the dpi it was     *)
(* rasterized at.                                                          *)
(***************************************************************************)
EXTENDS Integers, Sequences, FiniteSets, TLC

\* ------------------------------------------------------------------ bounds
\* Users sending updates to the bot.
NumUsers == 2
\* Distinct transport file ids (documents) that can be uploaded.
NumFiles == 2
\* Longest /pages argument list.
MaxArgs == 2
\* Longest JSON array in a Classifier response of the function-level
\* specification.
MaxArrayLen == 2
\* Largest page count and largest cap offered to render_thumbnails in the
\* function-level specification are MAX_THUMBNAIL_PAGES + ExtraPages.
ExtraPages == 2

\* --------------------------------------------------------------- constants
\* bot.py:37, and the default of render_thumbnails' max_pages (bot.py:39).
MAX_THUMBNAIL_PAGES == 12
\* bot.py:47, the dpi of the detection thumbnails.
LOW_DPI == 72
\* bot.py:63, the dpi of the analysis images.
HIGH_DPI == 300
\* bot.py:86, the length of the "```json" prefix cut from the response.
JSON_FENCE_LEN == 7
\* bot.py:88, the length of the "```" prefix cut from the response.
FENCE_LEN == 3

Users == 1..NumUsers
FileIds == 1..NumFiles

\* ------------------------------------------------------------------- text
Digits == {"0", "1", "2", "3", "4", "5", "6", "7", "8", "9"}

DigitVal(c) ==
  CASE c = "0" -> 0 [] c = "1" -> 1 [] c = "2" -> 2 [] c = "3" -> 3
    [] c = "4" -> 4 [] c = "5" -> 5 [] c = "6" -> 6 [] c = "7" -> 7
    [] c = "8" -> 8 [] c = "9" -> 9

\* str.isspace() on the characters of the model's alphabet.
IsSpace(c) == c \in {" ", "\n"}

\* str.strip(): leading and trailing whitespace removed.
RECURSIVE LStrip(_)
LStrip(t) ==
  IF t # <<>> /\ IsSpace(Head(t)) THEN LStrip(Tail(t)) ELSE t

RECURSIVE RStrip(_)
RStrip(t) ==
  IF t # <<>> /\ IsSpace(t[Len(t)]) THEN RStrip(SubSeq(t, 1, Len(t) - 1)) ELSE t

strip(t) == RStrip(LStrip(t))

\* str.startswith(prefix).
startswith(t, prefix) ==
  /\ Len(t) >= Len(prefix)
  /\ SubSeq(t, 1, Len(prefix)) = prefix

\* The Python slice t[start:stop] for start >= 0 and stop < 0.
Slice(t, start, stop) == SubSeq(t, start + 1, Len(t) + stop)

\* The backquote character (a string literal cannot hold it).
BQ == "BQ"

FENCE == <<BQ, BQ, BQ>>
JSON_FENCE == FENCE \o <<"j", "s", "o", "n">>

\* ------------------------------------------------------------- json.loads
\* The JSON grammar of integers and flat arrays of integers, which is what
\* json.loads accepts of the texts the model draws.  A parse gives
\* [ok, kind, items]: kind "list" with the elements, or kind "int" with the
\* one number; ok = FALSE stands for json.JSONDecodeError.
JsonError == [ok |-> FALSE, kind |-> "none", items |-> <<>>]
JsonList(items) == [ok |-> TRUE, kind |-> "list", items |-> items]
JsonInt(n) == [ok |-> TRUE, kind |-> "int", items |-> <<n>>]

\* JSON whitespace (of the model's alphabet: space and newline).
IsJsonWs(c) == c \in {" ", "\n"}

RECURSIVE SkipWs(_, _)
SkipWs(t, i) ==
  IF i <= Len(t) /\ IsJsonWs(t[i]) THEN SkipWs(t, i + 1) ELSE i

RECURSIVE ScanDigits(_, _, _)
ScanDigits(t, i, acc) ==
  IF i <= Len(t) /\ t[i] \in Digits
  THEN ScanDigits(t, i + 1, 10 * acc + DigitVal(t[i]))
  ELSE [val |-> acc, next |-> i]

\* A JSON integer at position i: -? (0 | [1-9][0-9]*).
ScanJsonInt(t, i) ==
  LET neg == i <= Len(t) /\ t[i] = "-"
      j == IF neg THEN i + 1 ELSE i
  IN  IF j > Len(t) \/ t[j] \notin Digits
      THEN [ok |-> FALSE, val |-> 0, next |-> j]
      ELSE IF t[j] = "0"
      THEN [ok |-> TRUE, val |-> 0, next |-> j + 1]
      ELSE LET d == ScanDigits(t, j, 0)
           IN  [ok |-> TRUE, val |-> IF neg THEN 0 - d.val ELSE d.val,
                next |-> d.next]

\* The elements of an array from position i (an element is expected there),
\* up to and including the closing bracket.
RECURSIVE ParseElems(_, _, _)
ParseElems(t, i, acc) ==
  LET e == ScanJsonInt(t, SkipWs(t, i))
      k == SkipWs(t, e.next)
  IN  IF ~e.ok \/ k > Len(t)
      THEN [ok |-> FALSE, items |-> <<>>, next |-> k]
      ELSE IF t[k] = "]"
      THEN [ok |-> TRUE, items |-> Append(acc, e.val), next |-> k + 1]
      ELSE IF t[k] = ","
      THEN ParseElems(t, k + 1, Append(acc, e.val))
      ELSE [ok |-> FALSE, items |-> <<>>, next |-> k]

ParseArray(t, i) ==
  LET k == SkipWs(t, i + 1)
  IN  IF k <= Len(t) /\ t[k] = "]"
      THEN [ok |-> TRUE, items |-> <<>>, next |-> k + 1]
      ELSE ParseElems(t, i + 1, <<>>)

json_loads(t) ==
  LET i == SkipWs(t, 1)
  IN  IF i > Len(t)
      THEN JsonError
      ELSE IF t[i] = "["
      THEN LET a == ParseArray(t, i)
           IN  IF a.ok /\ SkipWs(t, a.next) > Len(t)
               THEN JsonList(a.items)
               ELSE JsonError
      ELSE LET n == ScanJsonInt(t, i)
           IN  IF n.ok /\ SkipWs(t, n.next) > Len(t)
               THEN JsonInt(n.val)
               ELSE JsonError

\* ------------------------------------------------------------------ int()
\* int(arg) on a /pages argument: an optional sign, then one or more digits
\* (leading zeros allowed); anything else raises ValueError (ok = FALSE).
int(arg) ==
  LET signed == arg # <<>> /\ arg[1] \in {"-", "+"}
      j == IF signed THEN 2 ELSE 1
      d == ScanDigits(arg, j, 0)
  IN  IF j > Len(arg) \/ d.next <= Len(arg) \/ arg[j] \notin Digits
      THEN [ok |-> FALSE, val |-> 0]
      ELSE [ok |-> TRUE,
            val |-> IF signed /\ arg[1] = "-" THEN 0 - d.val ELSE d.val]

\* Mutant of IntList: an argument that is no integer is skipped instead of
\* raising ValueError.
RECURSIVE IntList_skipping(_)
IntList_skipping(args) ==
  IF args = <<>>
  THEN [ok |-> TRUE, val |-> <<>>]
  ELSE LET h == int(Head(args))
           r == IntList_skipping(Tail(args))
       IN  [ok |-> TRUE, val |-> (IF h.ok THEN <<h.val>> ELSE <<>>) \o r.val]

\* [int(arg) for arg in context.args]: the list, or ValueError at the first
\* argument that is no integer.
RECURSIVE IntList(_)
IntList(args) ==
  IF args = <<>>
  THEN [ok |-> TRUE, val |-> <<>>]
  ELSE LET h == int(Head(args))
           r == IntList(Tail(args))
       IN  IF h.ok /\ r.ok
           THEN [ok |-> TRUE, val |-> <<h.val>> \o r.val]
           ELSE [ok |-> FALSE, val |-> <<>>]

\* -------------------------------------------------------------- documents
\* A document is what fitz.open gives for a file: its transport file id and
\* its page count.  NoFile stands for a path that holds no file.
Document(f, n) == [file_id |-> f, page_count |-> n]
NoFile == Document(0, 0)

\* The documents the users upload: file id f has f + 1 pages.
Upload(f) == Document(f, f + 1)

\* Paths: <temp_dir>/newspaper.pdf (bot.py:137) and
\* <tmp>/editorial_bot_files/<file_id>.pdf (bot.py:161-163).
NoPath == [dir |-> "none", name |-> 0]
TempPath == [dir |-> "temp", name |-> 0]
PersistPath(file_id) == [dir |-> "persist", name |-> file_id]

\* The image of one page: Image.open of the PNG of page.get_pixmap(dpi).
PageImage(doc, page_index, dpi) ==
  [file_id |-> doc.file_id, page |-> page_index + 1, dpi |-> dpi]

Min(a, b) == IF a <= b THEN a ELSE b

\* Mutant of render_thumbnails: the cap is ignored.
render_thumbnails_uncapped(doc, max_pages) ==
  [k \in 1..doc.page_count |-> PageImage(doc, k - 1, LOW_DPI)]

\* render_thumbnails (bot.py:39-52): the first min(page_count, max_pages)
\* pages, loaded by their 0-based index, at low resolution.
render_thumbnails(doc, max_pages) ==
  LET num_pages == Min(doc.page_count, max_pages)
  IN  [k \in 1..num_pages |-> PageImage(doc, k - 1, LOW_DPI)]

\* Mutant of render_high_res: the lower bound of the range check is missing.
RECURSIVE render_high_res_no_lower_bound(_, _)
render_high_res_no_lower_bound(doc, page_numbers) ==
  IF page_numbers = <<>>
  THEN <<>>
  ELSE LET page_num == Head(page_numbers)
           rest == render_high_res_no_lower_bound(doc, Tail(page_numbers))
       IN  IF page_num <= doc.page_count
           THEN <<PageImage(doc, page_num - 1, HIGH_DPI)>> \o rest
           ELSE rest

\* render_high_res (bot.py:54-68): the pages of the 1-based page_numbers
\* that lie in 1..page_count, in the order given, at high resolution.
RECURSIVE render_high_res(_, _)
render_high_res(doc, page_numbers) ==
  IF page_numbers = <<>>
  THEN <<>>
  ELSE LET page_num == Head(page_numbers)
           rest == render_high_res(doc, Tail(page_numbers))
       IN  IF 1 <= page_num /\ page_num <= doc.page_count
           THEN <<PageImage(doc, page_num - 1, HIGH_DPI)>> \o rest
           ELSE rest

\* ------------------------------------------------------------- Classifier
\* What model.generate_content_async gives: raises = "call" when the call
\* itself raises, "text" when response.text raises (an empty or blocked
\* response), "none" when response.text is the text.
Response(raises, text) == [raises |-> raises, text |-> text]

\* A Python value returned by the Classifier: kind "list" with its items,
\* or kind "int" with the one number.
PyList(items) == [kind |-> "list", items |-> items]
PyInt(n) == [kind |-> "int", items |-> <<n>>]

\* What a function call gives: the value returned, or an exception raised.
Returned(value) == [raised |-> FALSE, value |-> value]
Raised == [raised |-> TRUE, value |-> PyList(<<>>)]

\* Mutant of CleanFence: the tagged fence is cut like the untagged one.
CleanFence_untagged_cut(response_text) ==
  LET text == strip(response_text)
  IN  IF startswith(text, FENCE)
      THEN Slice(text, FENCE_LEN, 0 - FENCE_LEN)
      ELSE text

\* The code-fence clean-up of bot.py:83-88.
CleanFence(response_text) ==
  LET text == strip(response_text)
  IN  IF startswith(text, JSON_FENCE)
      THEN Slice(text, JSON_FENCE_LEN, 0 - FENCE_LEN)
      ELSE IF startswith(text, FENCE)
      THEN Slice(text, FENCE_LEN, 0 - FENCE_LEN)
      ELSE text

\* Mutant of detect_editorial_pages: no except clause, so a failed call, an
\* empty response and a parse error propagate.
detect_editorial_pages_uncaught(response) ==
  IF response.raises # "none"
  THEN Raised
  ELSE LET parsed == json_loads(CleanFence(response.text))
       IN  IF parsed.ok
           THEN Returned([kind |-> parsed.kind, items |-> parsed.items])
           ELSE Raised

\* detect_editorial_pages (bot.py:70-93): every exception of the try block
\* is caught and gives [].
detect_editorial_pages(response) ==
  IF response.raises # "none"
  THEN Returned(PyList(<<>>))
  ELSE LET parsed == json_loads(CleanFence(response.text))
       IN  IF parsed.ok
           THEN Returned([kind |-> parsed.kind, items |-> parsed.items])
           ELSE Returned(PyList(<<>>))

\* Python truthiness of a Classifier value (bot.py:153, "not detected_pages").
Truthy(value) ==
  IF value.kind = "list" THEN value.items # <<>> ELSE value.items # <<0>>

\* --------------------------------------------------------------- Analyzer
BRIEF == "brief"
APOLOGY == "Error analyzing the pages. Please try again."

\* Mutant of analyze_pages: a failure of the inference call is not caught.
analyze_pages_uncaught(images, inference_ok) ==
  IF inference_ok THEN Returned(BRIEF) ELSE Raised

\* analyze_pages (bot.py:95-118): the response text, or the apology when the
\* inference call raises.
analyze_pages(images, inference_ok) ==
  IF inference_ok THEN Returned(BRIEF) ELSE Returned(APOLOGY)

\* ------------------------------------------------------------------ state
VARIABLES
  user_data,        \* context.user_data: per user, the 'last_pdf_path' entry
  persist_dir,      \* <tmp>/editorial_bot_files: file name -> document held
  temp_dir,         \* the TemporaryDirectory of the running handle_document
  update,           \* the update whose handler is running (or ran last)
  pc,               \* the handler's position, or how it ended
  thumbnails,       \* handle_document's thumbnails
  response,         \* the Classifier's inference response of this run
  detected_pages,   \* handle_document's detected_pages
  pages,            \* pages_command's pages
  high_res_images,  \* the images given to the Analyzer
  summary,          \* the Analyzer's result
  exc,              \* the exception that ended the try block, "" if none
  sent,             \* the messages and status edits shown to the user
  render_calls,     \* the render_high_res calls of this run, with arguments
  render_log,       \* the render calls of this run: where each ran, and what
                    \* became of the document handle it opened
  analyze_calls,    \* the number of analyze_pages calls of this run
  failures,         \* the calls of this run that the environment made fail
  call              \* function-level specification: the call made

run_vars == <<thumbnails, response, detected_pages, pages, high_res_images,
              summary, exc, sent, render_calls, render_log, analyze_calls,
              failures>>
store_vars == <<user_data, persist_dir>>
vars == <<user_data, persist_dir, temp_dir, update, pc, thumbnails, response,
          detected_pages, pages, high_res_images, summary, exc, sent,
          render_calls, render_log, analyze_calls, failures, call>>

\* ----------------------------------------------------------------- inputs
PDF_MIME == "application/pdf"
MimeTypes == {PDF_MIME, "image/png"}

\* The /pages arguments offered: "2", "-1" and the non-integer "x"; an
\* argument list holds each at most once.
ArgTokens == { <<"2">>, <<"-", "1">>, <<"x">> }

NoRepeat(q) == \A i, j \in 1..Len(q) : q[i] = q[j] => i = j

RECURSIVE SeqsUpTo(_, _)
SeqsUpTo(S, n) ==
  IF n = 0
  THEN { <<>> }
  ELSE LET shorter == SeqsUpTo(S, n - 1)
       IN  shorter \cup { Append(q, e) : q \in shorter, e \in S }

ArgLists == { q \in SeqsUpTo(ArgTokens, MaxArgs) : NoRepeat(q) }

NoUpdate ==
  [kind |-> "none", user |-> 0, file_id |-> 0, mime_type |-> "", args |-> <<>>]
DocumentUpdate(u, f, m) ==
  [kind |-> "document", user |-> u, file_id |-> f, mime_type |-> m,
   args |-> <<>>]
PagesUpdate(u, args) ==
  [kind |-> "pages", user |-> u, file_id |-> 0, mime_type |-> "", args |-> args]
StartUpdate(u) ==
  [kind |-> "start", user |-> u, file_id |-> 0, mime_type |-> "", args |-> <<>>]

Updates ==
  { DocumentUpdate(u, f, m) : u \in Users, f \in FileIds, m \in MimeTypes }
    \cup { PagesUpdate(u, a) : u \in Users, a \in ArgLists }
    \cup { StartUpdate(u) : u \in Users }

\* The Classifier responses of the pipeline: [], [1], [2, 1] in a json fence,
\* [3] in a bare fence, the truncated "[1,", [1] in a fence never closed,
\* the number 5, a failed call and an empty response.
PipelineResponses ==
  { Response("none", <<"[", "]">>),
    Response("none", <<"[", "1", "]">>),
    Response("none", JSON_FENCE \o <<"\n", "[", "2", ",", " ", "1", "]", "\n">>
                        \o FENCE),
    Response("none", FENCE \o <<"[", "3", "]">> \o FENCE \o <<"\n">>),
    Response("none", <<"[", "1", ",">>),
    Response("none", JSON_FENCE \o <<"\n", "[", "1", "]">>),
    Response("none", <<"5">>),
    Response("call", <<>>),
    Response("text", <<>>) }

\* The messages shown to the user.
Msg(text, detail) == [text |-> text, detail |-> detail]
MSG_WELCOME == Msg("Welcome!", "")
MSG_SEND_PDF == Msg("Please send a PDF file.", "")
MSG_PROCESSING == Msg("Processing PDF... generating thumbnails.", "")
MSG_SCANNING == Msg("Scanning for editorial pages (sending to Gemini)...", "")
MSG_MANUAL == Msg("Could not automatically locate editorials.", "/pages")
MSG_FOUND == Msg("Found editorials on pages. Analyzing...", "")
MSG_ANNOUNCE == Msg("Here is your Decision-Maker's Brief:", "")
MSG_USAGE == Msg("Please provide page numbers. Example: /pages 6 7", "")
MSG_NO_PDF == Msg("No recent PDF found. Please upload the newspaper again.", "")
MSG_ANALYZING == Msg("Analyzing pages...", "")
MSG_INVALID == Msg("Invalid page numbers. Please use format: /pages 6 7", "")
MsgError(e) == Msg("An error occurred:", e)
MsgSummary(text) == Msg("summary", text)

\* How a handler ends.
Ended ==
  {"Idle", "Ignored", "Rejected", "NoSession", "AwaitingManualPages", "Done",
   "Error", "Uncaught"}

\* The file at a path (fitz.open, os.path.exists, shutil.copy read it).
FileAt(path) ==
  IF path.dir = "temp"
  THEN temp_dir.file
  ELSE IF path.dir = "persist"
  THEN persist_dir[path.name]
  ELSE NoFile

exists(path) == FileAt(path) # NoFile

NoTempDir == [exists |-> FALSE, file |-> NoFile]
NoResponse == Response("unset", <<>>)
NoValue == [kind |-> "unset", items |-> <<>>]
NoCall == [fn |-> "none"]

RunInit ==
  /\ thumbnails = <<>>
  /\ response = NoResponse
  /\ detected_pages = NoValue
  /\ pages = <<>>
  /\ high_res_images = <<>>
  /\ summary = ""
  /\ exc = ""
  /\ sent = <<>>
  /\ render_calls = <<>>
  /\ render_log = <<>>
  /\ analyze_calls = 0
  /\ failures = {}

Init ==
  /\ user_data = [u \in Users |-> NoPath]
  /\ persist_dir = [f \in FileIds |-> NoFile]
  /\ temp_dir = NoTempDir
  /\ update = NoUpdate
  /\ pc = "Idle"
  /\ RunInit
  /\ call = NoCall

\* ------------------------------------------------------------- dispatcher
\* main (bot.py:218-230): the application handles one update at a time
\* (ApplicationBuilder's default, no concurrent updates), gives a PDF
\* document to handle_document (filters.Document.PDF), /pages to
\* pages_command and /start to start, and drops a document of another type.
Route(upd) ==
  IF upd.kind = "document"
  THEN IF upd.mime_type = PDF_MIME THEN "hd_entry" ELSE "Ignored"
  ELSE IF upd.kind = "pages" THEN "pc_entry" ELSE "start"

Receive ==
  /\ pc \in Ended
  /\ \E upd \in Updates :
       /\ update' = upd
       /\ pc' = Route(upd)
  /\ thumbnails' = <<>>
  /\ response' = NoResponse
  /\ detected_pages' = NoValue
  /\ pages' = <<>>
  /\ high_res_images' = <<>>
  /\ summary' = ""
  /\ exc' = ""
  /\ sent' = <<>>
  /\ render_calls' = <<>>
  /\ render_log' = <<>>
  /\ analyze_calls' = 0
  /\ failures' = {}
  /\ UNCHANGED <<user_data, persist_dir, temp_dir, call>>

\* start (bot.py:120-123).
start ==
  /\ pc = "start"
  /\ sent' = Append(sent, MSG_WELCOME)
  /\ pc' = "Idle"
  /\ UNCHANGED <<user_data, persist_dir, temp_dir, update, thumbnails,
                 response, detected_pages, pages, high_res_images, summary,
                 exc, render_calls, render_log, analyze_calls, failures, call>>

\* ------------------------------------------------------------ render calls
\* Where a render call runs: handed to the default executor with
\* run_in_executor (bot.py:145, 174), or called in the coroutine itself, on
\* the event loop (bot.py:202).
EXECUTOR == "executor"
LOOP == "loop"

\* Where a render call can raise: in fitz.open (bot.py:41, 56), before there
\* is a handle, or in load_page / get_pixmap / tobytes (bot.py:46-48, 62-64),
\* which only run when some page is rendered.
RaiseStages(rendered) ==
  IF rendered = <<>> THEN {"fitz.open"} ELSE {"fitz.open", "page"}

\* The handle after a render call.  doc.close() (bot.py:51, 67) runs only
\* when the loop has ended normally; no try/finally surrounds the loop, so a
\* raise in a page, or in the for statement itself when page_numbers cannot
\* be iterated (bot.py:59), leaves the function with the handle open.
HandleAfterReturn == "closed"
HandleAfterRaise(stage) == IF stage = "fitz.open" THEN "none" ELSE "open"

RenderLogEntry(fn, thread, handle) ==
  [fn |-> fn, thread |-> thread, handle |-> handle]

\* -------------------------------------------------------- handle_document
\* An exception inside the with block (bot.py:133-182): the temporary
\* directory is removed on the way out and the except clause runs next.
RaiseInTry(site, e) ==
  /\ exc' = e
  /\ failures' = failures \cup {site}
  /\ temp_dir' = NoTempDir
  /\ pc' = "hd_except"

\* bot.py:126-133: the content-type check, the first status message, and
\* the temporary directory.
handle_document_entry ==
  /\ pc = "hd_entry"
  /\ IF update.mime_type # PDF_MIME
     THEN /\ sent' = Append(sent, MSG_SEND_PDF)
          /\ pc' = "Rejected"
          /\ UNCHANGED temp_dir
     ELSE /\ sent' = Append(sent, MSG_PROCESSING)
          /\ temp_dir' = [exists |-> TRUE, file |-> NoFile]
          /\ pc' = "hd_download"
  /\ UNCHANGED <<user_data, persist_dir, update, thumbnails, response,
                 detected_pages, pages, high_res_images, summary, exc,
                 render_calls, render_log, analyze_calls, failures, call>>

\* bot.py:135-139: get_file and download_to_drive, which may raise.
handle_document_download ==
  /\ pc = "hd_download"
  /\ \/ /\ temp_dir' = [temp_dir EXCEPT !.file = Upload(update.file_id)]
        /\ pc' = "hd_thumbnails"
        /\ UNCHANGED <<exc, failures>>
     \/ RaiseInTry("download", "download failed")
  /\ UNCHANGED <<user_data, persist_dir, update, thumbnails, response,
                 detected_pages, pages, high_res_images, summary, sent,
                 render_calls, render_log, analyze_calls, call>>

\* bot.py:141-148: the thumbnails (rendering may raise) and the status edit.
handle_document_thumbnails ==
  /\ pc = "hd_thumbnails"
  /\ LET rendered == render_thumbnails(FileAt(TempPath), MAX_THUMBNAIL_PAGES)
     IN  \/ /\ thumbnails' = rendered
            /\ render_log' = Append(render_log,
                                    RenderLogEntry("render_thumbnails", EXECUTOR,
                                                   HandleAfterReturn))
            /\ sent' = Append(sent, MSG_SCANNING)
            /\ pc' = "hd_detect"
            /\ UNCHANGED <<exc, failures, temp_dir>>
         \/ /\ RaiseInTry("render_thumbnails", "render failed")
            /\ \E stage \in RaiseStages(rendered) :
                 render_log' = Append(render_log,
                                      RenderLogEntry("render_thumbnails",
                                                     EXECUTOR,
                                                     HandleAfterRaise(stage)))
            /\ UNCHANGED <<thumbnails, sent>>
  /\ UNCHANGED <<user_data, persist_dir, update, response, detected_pages,
                 pages, high_res_images, summary, render_calls,
                 analyze_calls, call>>

\* bot.py:150-151: the Classifier, on whatever the inference service gives.
handle_document_detect ==
  /\ pc = "hd_detect"
  /\ \E r \in PipelineResponses :
       LET d == detect_editorial_pages(r)
           failed == IF r.raises # "none" THEN {"detect_inference"} ELSE {}
       IN  /\ response' = r
           /\ IF d.raised
              THEN /\ exc' = "detection failed"
                   /\ failures' = failures \cup failed
                   /\ temp_dir' = NoTempDir
                   /\ pc' = "hd_except"
                   /\ UNCHANGED detected_pages
              ELSE /\ detected_pages' = d.value
                   /\ failures' = failures \cup failed
                   /\ pc' = "hd_branch"
                   /\ UNCHANGED <<exc, temp_dir>>
  /\ UNCHANGED <<user_data, persist_dir, update, thumbnails, pages,
                 high_res_images, summary, sent, render_calls, render_log, analyze_calls,
                 call>>

\* bot.py:153-158 and 170: the branch on "not detected_pages" and the status
\* edit of either side.
handle_document_branch ==
  /\ pc = "hd_branch"
  /\ IF ~Truthy(detected_pages)
     THEN /\ sent' = Append(sent, MSG_MANUAL)
          /\ pc' = "hd_persist"
     ELSE /\ sent' = Append(sent, MSG_FOUND)
          /\ pc' = "hd_render"
  /\ UNCHANGED <<user_data, persist_dir, temp_dir, update, thumbnails,
                 response, detected_pages, pages, high_res_images, summary,
                 exc, render_calls, render_log, analyze_calls, failures, call>>

\* Mutant of handle_document_persist: the temporary directory is removed
\* first, and nothing is left to copy.
handle_document_persist_cleanup_first ==
  /\ pc = "hd_persist"
  /\ temp_dir' = NoTempDir
  /\ persist_dir' = [persist_dir EXCEPT ![PersistPath(update.file_id).name] =
                       NoFile]
  /\ pc' = "hd_store"
  /\ UNCHANGED <<user_data, update, call>>
  /\ UNCHANGED run_vars

\* bot.py:160-165: the copy into the persistent directory, under the name
\* <file_id>.pdf.
handle_document_persist ==
  /\ pc = "hd_persist"
  /\ persist_dir' = [persist_dir EXCEPT ![PersistPath(update.file_id).name] =
                       FileAt(TempPath)]
  /\ pc' = "hd_store"
  /\ UNCHANGED <<user_data, temp_dir, update, call>>
  /\ UNCHANGED run_vars

\* bot.py:167-168: the session entry, and the return out of the with block.
handle_document_store ==
  /\ pc = "hd_store"
  /\ user_data' = [user_data EXCEPT ![update.user] = PersistPath(update.file_id)]
  /\ temp_dir' = NoTempDir
  /\ pc' = "AwaitingManualPages"
  /\ UNCHANGED <<persist_dir, update, call>>
  /\ UNCHANGED run_vars

\* Mutant of handle_document_render: only the first detected page is
\* rendered.
handle_document_render_first_page ==
  /\ pc = "hd_render"
  /\ detected_pages.kind = "list"
  /\ render_calls' = Append(render_calls,
                            [pdf_path |-> TempPath, doc |-> FileAt(TempPath),
                             page_numbers |->
                               PyList(<<Head(detected_pages.items)>>)])
  /\ high_res_images' = render_high_res(FileAt(TempPath),
                                        <<Head(detected_pages.items)>>)
  /\ render_log' = Append(render_log,
                          RenderLogEntry("render_high_res", EXECUTOR,
                                         HandleAfterReturn))
  /\ pc' = "hd_analyze"
  /\ UNCHANGED <<user_data, persist_dir, temp_dir, update, thumbnails,
                 response, detected_pages, pages, summary, exc, sent,
                 analyze_calls, failures, call>>

\* bot.py:172-174: render_high_res on the detected pages; iterating a value
\* that is no list raises TypeError, and rendering itself may raise.
handle_document_render ==
  /\ pc = "hd_render"
  /\ render_calls' = Append(render_calls,
                            [pdf_path |-> TempPath, doc |-> FileAt(TempPath),
                             page_numbers |-> detected_pages])
  /\ \/ /\ detected_pages.kind = "list"
        /\ high_res_images' = render_high_res(FileAt(TempPath),
                                              detected_pages.items)
        /\ render_log' = Append(render_log,
                                RenderLogEntry("render_high_res", EXECUTOR,
                                               HandleAfterReturn))
        /\ pc' = "hd_analyze"
        /\ UNCHANGED <<exc, failures, temp_dir>>
     \/ /\ detected_pages.kind # "list"
        /\ RaiseInTry("not_a_list", "'int' object is not iterable")
        /\ render_log' = Append(render_log,
                                RenderLogEntry("render_high_res", EXECUTOR,
                                               HandleAfterRaise("for")))
        /\ UNCHANGED high_res_images
     \/ /\ RaiseInTry("render_high_res", "render failed")
        /\ \E stage \in RaiseStages(IF detected_pages.kind = "list"
                                    THEN render_high_res(FileAt(TempPath),
                                                         detected_pages.items)
                                    ELSE <<>>) :
             render_log' = Append(render_log,
                                  RenderLogEntry("render_high_res", EXECUTOR,
                                                 HandleAfterRaise(stage)))
        /\ UNCHANGED high_res_images
  /\ UNCHANGED <<user_data, persist_dir, update, thumbnails, response,
                 detected_pages, pages, summary, sent, analyze_calls, call>>

\* bot.py:176-178: the Analyzer; its inference call may fail.
handle_document_analyze ==
  /\ pc = "hd_analyze"
  /\ \E inference_ok \in BOOLEAN :
       LET r == analyze_pages(high_res_images, inference_ok)
           failed == IF inference_ok THEN {} ELSE {"analyze_inference"}
       IN  IF r.raised
           THEN /\ exc' = "analysis failed"
                /\ failures' = failures \cup failed
                /\ temp_dir' = NoTempDir
                /\ pc' = "hd_except"
                /\ UNCHANGED summary
           ELSE /\ summary' = r.value
                /\ failures' = failures \cup failed
                /\ pc' = "hd_reply"
                /\ UNCHANGED <<exc, temp_dir>>
  /\ analyze_calls' = analyze_calls + 1
  /\ UNCHANGED <<user_data, persist_dir, update, thumbnails, response,
                 detected_pages, pages, high_res_images, sent, render_calls, render_log,
                 call>>

\* bot.py:180-182: the announcement and the summary, then the end of the
\* with block.
handle_document_reply ==
  /\ pc = "hd_reply"
  /\ sent' = sent \o <<MSG_ANNOUNCE, MsgSummary(summary)>>
  /\ temp_dir' = NoTempDir
  /\ pc' = "Done"
  /\ UNCHANGED <<user_data, persist_dir, update, thumbnails, response,
                 detected_pages, pages, high_res_images, summary, exc,
                 render_calls, render_log, analyze_calls, failures, call>>

\* bot.py:184-186: the except clause reports the exception.
handle_document_except ==
  /\ pc = "hd_except"
  /\ sent' = Append(sent, MsgError(exc))
  /\ pc' = "Error"
  /\ UNCHANGED <<user_data, persist_dir, temp_dir, update, thumbnails,
                 response, detected_pages, pages, high_res_images, summary,
                 exc, render_calls, render_log, analyze_calls, failures, call>>

\* ---------------------------------------------------------- pages_command
\* context.user_data.get('last_pdf_path') of the requesting user.
last_pdf_path == user_data[update.user]

\* Mutant of pages_command_entry: the retained file's existence is not
\* checked.
pages_command_entry_unchecked_file ==
  /\ pc = "pc_entry"
  /\ IF update.args = <<>>
     THEN /\ sent' = Append(sent, MSG_USAGE)
          /\ pc' = "Rejected"
     ELSE IF last_pdf_path = NoPath
     THEN /\ sent' = Append(sent, MSG_NO_PDF)
          /\ pc' = "NoSession"
     ELSE /\ pc' = "pc_parse"
          /\ UNCHANGED sent
  /\ UNCHANGED <<user_data, persist_dir, temp_dir, update, thumbnails,
                 response, detected_pages, pages, high_res_images, summary,
                 exc, render_calls, render_log, analyze_calls, failures, call>>

\* bot.py:189-196: the argument check, then the session check.
pages_command_entry ==
  /\ pc = "pc_entry"
  /\ IF update.args = <<>>
     THEN /\ sent' = Append(sent, MSG_USAGE)
          /\ pc' = "Rejected"
     ELSE IF last_pdf_path = NoPath \/ ~exists(last_pdf_path)
     THEN /\ sent' = Append(sent, MSG_NO_PDF)
          /\ pc' = "NoSession"
     ELSE /\ pc' = "pc_parse"
          /\ UNCHANGED sent
  /\ UNCHANGED <<user_data, persist_dir, temp_dir, update, thumbnails,
                 response, detected_pages, pages, high_res_images, summary,
                 exc, render_calls, render_log, analyze_calls, failures, call>>

\* bot.py:199-200 and 215-216: the conversion of the arguments; ValueError
\* gives the format message.
pages_command_parse ==
  /\ pc = "pc_parse"
  /\ LET r == IntList(update.args)
     IN  IF r.ok
         THEN /\ pages' = r.val
              /\ sent' = Append(sent, MSG_ANALYZING)
              /\ pc' = "pc_render"
         ELSE /\ sent' = Append(sent, MSG_INVALID)
              /\ pc' = "Rejected"
              /\ UNCHANGED pages
  /\ UNCHANGED <<user_data, persist_dir, temp_dir, update, thumbnails,
                 response, detected_pages, high_res_images, summary, exc,
                 render_calls, render_log, analyze_calls, failures, call>>

\* bot.py:202: render_high_res on the retained file.  An exception it raises
\* is caught only if it is a ValueError (bot.py:215-216); any other leaves
\* the handler.
pages_command_render ==
  /\ pc = "pc_render"
  /\ render_calls' = Append(render_calls,
                            [pdf_path |-> last_pdf_path,
                             doc |-> FileAt(last_pdf_path),
                             page_numbers |-> PyList(pages)])
  /\ \/ /\ high_res_images' = render_high_res(FileAt(last_pdf_path), pages)
        /\ render_log' = Append(render_log,
                                RenderLogEntry("render_high_res", LOOP,
                                               HandleAfterReturn))
        /\ pc' = "pc_analyze"
        /\ UNCHANGED <<exc, failures, sent>>
     \/ /\ exc' = "RuntimeError"
        /\ failures' = failures \cup {"render_high_res"}
        /\ \E stage \in RaiseStages(render_high_res(FileAt(last_pdf_path),
                                                     pages)) :
             render_log' = Append(render_log,
                                  RenderLogEntry("render_high_res", LOOP,
                                                 HandleAfterRaise(stage)))
        /\ pc' = "Uncaught"
        /\ UNCHANGED <<high_res_images, sent>>
     \/ /\ exc' = "ValueError"
        /\ failures' = failures \cup {"render_high_res"}
        /\ \E stage \in RaiseStages(render_high_res(FileAt(last_pdf_path),
                                                     pages)) :
             render_log' = Append(render_log,
                                  RenderLogEntry("render_high_res", LOOP,
                                                 HandleAfterRaise(stage)))
        /\ sent' = Append(sent, MSG_INVALID)
        /\ pc' = "Rejected"
        /\ UNCHANGED high_res_images
  /\ UNCHANGED <<user_data, persist_dir, temp_dir, update, thumbnails,
                 response, detected_pages, pages, summary, analyze_calls,
                 call>>

\* bot.py:203: the Analyzer; its inference call may fail.
pages_command_analyze ==
  /\ pc = "pc_analyze"
  /\ \E inference_ok \in BOOLEAN :
       LET r == analyze_pages(high_res_images, inference_ok)
           failed == IF inference_ok THEN {} ELSE {"analyze_inference"}
       IN  IF r.raised
           THEN /\ exc' = "analysis failed"
                /\ failures' = failures \cup failed
                /\ pc' = "Uncaught"
                /\ UNCHANGED summary
           ELSE /\ summary' = r.value
                /\ failures' = failures \cup failed
                /\ pc' = "pc_reply"
                /\ UNCHANGED exc
  /\ analyze_calls' = analyze_calls + 1
  /\ UNCHANGED <<user_data, persist_dir, temp_dir, update, thumbnails,
                 response, detected_pages, pages, high_res_images, sent,
                 render_calls, render_log, call>>

\* bot.py:205-206: the announcement and the summary.
pages_command_reply ==
  /\ pc = "pc_reply"
  /\ sent' = sent \o <<MSG_ANNOUNCE, MsgSummary(summary)>>
  /\ pc' = "pc_cleanup"
  /\ UNCHANGED <<user_data, persist_dir, temp_dir, update, thumbnails,
                 response, detected_pages, pages, high_res_images, summary,
                 exc, render_calls, render_log, analyze_calls, failures, call>>

\* Mutant of pages_command_cleanup: the file is removed and the entry is
\* left in place.
pages_command_cleanup_keeps_entry ==
  /\ pc = "pc_cleanup"
  /\ persist_dir' = [persist_dir EXCEPT ![last_pdf_path.name] = NoFile]
  /\ pc' = "Done"
  /\ UNCHANGED <<user_data, temp_dir, update, call>>
  /\ UNCHANGED run_vars

\* bot.py:208-213: os.remove of the retained file, then the entry's removal;
\* if os.remove raises, the entry stays.
pages_command_cleanup ==
  /\ pc = "pc_cleanup"
  /\ IF exists(last_pdf_path)
     THEN /\ persist_dir' = [persist_dir EXCEPT ![last_pdf_path.name] = NoFile]
          /\ user_data' = [user_data EXCEPT ![update.user] = NoPath]
     ELSE UNCHANGED <<persist_dir, user_data>>
  /\ pc' = "Done"
  /\ UNCHANGED <<temp_dir, update, call>>
  /\ UNCHANGED run_vars

\* ----------------------------------------- function-level specification
\* The pure functions applied to inputs drawn from bounded sets: one call is
\* made, and call holds its inputs and its result.

DigitChar(d) ==
  CASE d = 0 -> "0" [] d = 1 -> "1" [] d = 2 -> "2" [] d = 3 -> "3"
    [] d = 4 -> "4" [] d = 5 -> "5" [] d = 6 -> "6" [] d = 7 -> "7"
    [] d = 8 -> "8" [] d = 9 -> "9"

\* The decimal text of an integer.
RECURSIVE NatText(_)
NatText(n) ==
  IF n < 10 THEN <<DigitChar(n)>> ELSE NatText(n \div 10) \o <<DigitChar(n % 10)>>

IntText(n) == IF n < 0 THEN <<"-">> \o NatText(0 - n) ELSE NatText(n)

\* The JSON text of an array of integers, with the separator given.
RECURSIVE JoinInts(_, _)
JoinInts(A, sep) ==
  IF A = <<>>
  THEN <<>>
  ELSE IF Len(A) = 1
  THEN IntText(A[1])
  ELSE IntText(A[1]) \o sep \o JoinInts(Tail(A), sep)

ArrayText(A, sep) == <<"[">> \o JoinInts(A, sep) \o <<"]">>

\* The integers of the arrays offered, and the arrays.
IndexValues == {0 - 1, 0, 7, MAX_THUMBNAIL_PAGES}
Arrays == SeqsUpTo(IndexValues, MaxArrayLen)
Separators == { <<",">>, <<",", " ">> }
Whitespace == { <<>>, <<"\n">>, <<" ">> }

\* How a response text is built around the text of an array: bare, or in a
\* code fence with or without the json tag; whitespace inside the fence on
\* both sides of the array, and whitespace around the whole.
Wrappings ==
  [fence : {"bare", "plain", "json"}, inner : {<<>>, <<"\n">>},
   before : Whitespace, after : Whitespace]

Wrap(text, w) ==
  LET body ==
        IF w.fence = "bare"
        THEN text
        ELSE (IF w.fence = "json" THEN JSON_FENCE ELSE FENCE)
               \o w.inner \o text \o w.inner \o FENCE
  IN  w.before \o body \o w.after

\* The frame of the function-level actions: the pipeline is left alone.
PipelineUnchanged ==
  /\ UNCHANGED <<user_data, persist_dir, temp_dir, update, pc>>
  /\ UNCHANGED run_vars

\* detect_editorial_pages on an array's text, wrapped.
call_detect_wrapped ==
  /\ call = NoCall
  /\ \E A \in Arrays, sep \in Separators, w \in Wrappings :
       LET r == Response("none", Wrap(ArrayText(A, sep), w))
       IN  call' = [fn |-> "detect_editorial_pages", array |-> A,
                    wellformed |-> TRUE, fence |-> w.fence, response |-> r,
                    ret |-> detect_editorial_pages(r)]
  /\ PipelineUnchanged

\* detect_editorial_pages on a truncated array text (the text without its
\* last n characters, n >= 1), wrapped; on a failed call; on an empty
\* response.
call_detect_malformed ==
  /\ call = NoCall
  /\ \E A \in Arrays, sep \in Separators, w \in Wrappings,
        raises \in {"none", "call", "text"} :
       \E n \in 1..Len(ArrayText(A, sep)) :
         LET full == ArrayText(A, sep)
             r == Response(raises,
                           IF raises = "none"
                           THEN Wrap(SubSeq(full, 1, Len(full) - n), w)
                           ELSE <<>>)
         IN  call' = [fn |-> "detect_editorial_pages", array |-> A,
                      wellformed |-> FALSE, fence |-> w.fence,
                      response |-> r, ret |-> detect_editorial_pages(r)]
  /\ PipelineUnchanged

\* render_thumbnails on a document of any page count, under any cap.
call_render_thumbnails ==
  /\ call = NoCall
  /\ \E page_count \in 0..(MAX_THUMBNAIL_PAGES + ExtraPages),
        max_pages \in 0..(MAX_THUMBNAIL_PAGES + ExtraPages) :
       call' = [fn |-> "render_thumbnails", doc |-> Document(1, page_count),
                max_pages |-> max_pages,
                ret |-> render_thumbnails(Document(1, page_count), max_pages)]
  /\ PipelineUnchanged

\* The page numbers offered to render_high_res: from -1 (a negative one, and
\* 0) to beyond the largest page count offered.
HighResPageCounts == 0..(ExtraPages + 1)
HighResIndices == (0 - 1)..(ExtraPages + 2)

\* render_high_res on a document of any page count, with any index list.
call_render_high_res ==
  /\ call = NoCall
  /\ \E page_count \in HighResPageCounts,
        page_numbers \in SeqsUpTo(HighResIndices, MaxArrayLen + 1) :
       call' = [fn |-> "render_high_res", doc |-> Document(1, page_count),
                page_numbers |-> page_numbers,
                ret |-> render_high_res(Document(1, page_count), page_numbers)]
  /\ PipelineUnchanged

NextFunctions ==
  \/ call_detect_wrapped
  \/ call_detect_malformed
  \/ call_render_thumbnails
  \/ call_render_high_res

SpecFunctions == Init /\ [][NextFunctions]_vars

Next ==
  \/ Receive
  \/ start
  \/ handle_document_entry
  \/ handle_document_download
  \/ handle_document_thumbnails
  \/ handle_document_detect
  \/ handle_document_branch
  \/ handle_document_persist
  \/ handle_document_store
  \/ handle_document_render
  \/ handle_document_analyze
  \/ handle_document_reply
  \/ handle_document_except
  \/ pages_command_entry
  \/ pages_command_parse
  \/ pages_command_render
  \/ pages_command_analyze
  \/ pages_command_reply
  \/ pages_command_cleanup

Spec == Init /\ [][Next]_vars

\* ================================================================= claims

\* The user of the running update has a session entry whose file exists.
LiveEntry == last_pdf_path # NoPath /\ exists(last_pdf_path)

\* The last two messages shown are the announcement and the text given.
EndsWithSummary(text) ==
  /\ Len(sent) >= 2
  /\ sent[Len(sent) - 1] = MSG_ANNOUNCE
  /\ sent[Len(sent)] = MsgSummary(text)

\* ---------------------------------------------------------------------- C9
\* C9: for every JSON array of integers A, a response that is the text of A
\* in a code fence (with or without the json tag, with whitespace inside and
\* around the fence) parses to the list A, which is also what the bare text
\* of A parses to.
C9_FencedArrayParsesAsBare ==
  (call.fn = "detect_editorial_pages" /\ call.wellformed)
    => call.ret = Returned(PyList(call.array))

C9_Witness ==
  /\ call.fn = "detect_editorial_pages"
  /\ call.wellformed
  /\ call.fence = "json"
  /\ call.array = <<7, MAX_THUMBNAIL_PAGES>>
  /\ call.response.text[1] = "\n"
  /\ call.ret.value.items = <<7, MAX_THUMBNAIL_PAGES>>

\* --------------------------------------------------------------------- C10
\* C10: for every document and cap, render_thumbnails returns exactly
\* min(page_count, cap) images, and the i-th of them is page i of the
\* document.
C10_ThumbnailsAreFirstPages ==
  call.fn = "render_thumbnails"
    => /\ Len(call.ret) = (IF call.doc.page_count <= call.max_pages
                           THEN call.doc.page_count
                           ELSE call.max_pages)
       /\ \A i \in 1..Len(call.ret) :
            /\ call.ret[i].page = i
            /\ call.ret[i].file_id = call.doc.file_id

C10_Witness ==
  /\ call.fn = "render_thumbnails"
  /\ call.max_pages = MAX_THUMBNAIL_PAGES
  /\ call.doc.page_count > MAX_THUMBNAIL_PAGES
  /\ Len(call.ret) = MAX_THUMBNAIL_PAGES
  /\ call.ret[MAX_THUMBNAIL_PAGES].page = MAX_THUMBNAIL_PAGES

\* ---------------------------------------------------------------------- C1
\* The running update is an upload whose Classifier result is a non-empty
\* list.
DetectedNonEmptyList ==
  /\ update.kind = "document"
  /\ detected_pages.kind = "list"
  /\ detected_pages.items # <<>>

\* The one render_high_res call of the automatic path: the downloaded
\* document, and exactly the detected pages.
AutoRenderCall ==
  [pdf_path |-> TempPath, doc |-> Upload(update.file_id),
   page_numbers |-> detected_pages]

\* C1: an upload whose Classifier result is a non-empty index list S, in a
\* run where no call fails: render_high_res is called once, with exactly S;
\* the Analyzer is invoked exactly once; the Brief is emitted; the run ends
\* in Done and in no other way; and no step of the run changes the session
\* store.
C1_State ==
  (DetectedNonEmptyList /\ failures = {})
    => /\ pc \in {"hd_branch", "hd_render", "hd_analyze", "hd_reply", "Done"}
       /\ pc \in {"hd_branch", "hd_render"}
            => render_calls = <<>> /\ analyze_calls = 0
       /\ pc = "hd_analyze"
            => render_calls = <<AutoRenderCall>> /\ analyze_calls = 0
       /\ pc \in {"hd_reply", "Done"}
            => /\ render_calls = <<AutoRenderCall>>
               /\ analyze_calls = 1
               /\ summary = BRIEF
       /\ pc = "Done" => EndsWithSummary(BRIEF)

DetectedEmpty ==
  /\ update.kind = "document"
  /\ detected_pages # NoValue
  /\ ~Truthy(detected_pages)

\* The running update is a /pages command with a valid integer list.
ValidOverride ==
  /\ update.kind = "pages"
  /\ update.args # <<>>
  /\ IntList(update.args).ok

C3_UploadOverwritesEntry ==
  (update.kind = "document" /\ pc \in {"Done", "AwaitingManualPages"})
    => last_pdf_path \in {NoPath, PersistPath(update.file_id)}

\* ---------------------------------------------------------------------- C4
\* The running update is a /pages command of a user with no session entry,
\* or whose retained file is gone, and the run has not consumed an entry.
OverrideWithoutSession ==
  /\ update.kind = "pages"
  /\ ~LiveEntry
  /\ pc # "Done"

\* C4 as stated: a manual override received when the user has no session
\* entry (or the retained file is gone) replies with the re-upload
\* instruction and makes no render and no Analyzer call.
C4_Original ==
  (OverrideWithoutSession /\ pc \in Ended)
    => /\ sent = <<MSG_NO_PDF>>
       /\ render_calls = <<>>
       /\ analyze_calls = 0

C4_State ==
  OverrideWithoutSession
    => /\ pc \in {"pc_entry", "NoSession", "Rejected"}
       /\ render_calls = <<>>
       /\ analyze_calls = 0
       /\ pc = "pc_entry" => sent = <<>>
       /\ pc = "NoSession" => update.args # <<>> /\ sent = <<MSG_NO_PDF>>
       /\ pc = "Rejected" => update.args = <<>> /\ sent = <<MSG_USAGE>>

\* C4, amended: a manual override with at least one argument, received when
\* the user has no session entry (or the retained file is gone), replies
\* with the re-upload instruction; with no argument it replies with the
\* usage message instead.  Either way it makes no render and no Analyzer
\* call and leaves the session store unchanged.
C4_MissingSession ==
  /\ []C4_State
  /\ [][(OverrideWithoutSession /\ pc = "pc_entry")
          => UNCHANGED <<user_data, persist_dir>>]_vars

C4_Witness ==
  /\ OverrideWithoutSession
  /\ pc = "NoSession"
  /\ last_pdf_path # NoPath
  /\ sent = <<MSG_NO_PDF>>
  /\ render_calls = <<>>

\* ---------------------------------------------------------------------- C5
\* The failures that reach the handler as an exception (the inference
\* failures are absorbed inside the Classifier and the Analyzer).
PipelineFailures == {"download", "render_thumbnails", "render_high_res"}

RECURSIVE Contains(_, _)
Contains(q, m) ==
  q # <<>> /\ (Head(q) = m \/ Contains(Tail(q), m))

\* C5, for a failure of download or render: on both paths, when the run is
\* over the user has been shown an error message carrying the failure's
\* description, and neither the announcement nor a Brief.
C5_FailureReported ==
  (pc \in Ended /\ failures \cap PipelineFailures # {})
    => /\ Contains(sent, MsgError(exc))
       /\ ~Contains(sent, MSG_ANNOUNCE)
       /\ ~Contains(sent, MsgSummary(BRIEF))

\* ---------------------------------------------------------------------- C6
\* The running update is a /pages command whose argument list is empty or
\* holds a token that is no integer.
MalformedOverride ==
  /\ update.kind = "pages"
  /\ \/ update.args = <<>>
     \/ \E i \in 1..Len(update.args) :
          \E j \in 1..Len(update.args[i]) :
            update.args[i][j] \notin Digits \cup {"-", "+"}

C6_State ==
  (MalformedOverride /\ LiveEntry)
    => /\ pc \in {"pc_entry", "pc_parse", "Rejected"}
       /\ render_calls = <<>>
       /\ analyze_calls = 0
       /\ pc = "Rejected"
            => sent = (IF update.args = <<>> THEN <<MSG_USAGE>>
                                             ELSE <<MSG_INVALID>>)

\* C6: a manual-override command whose argument list is empty or holds a
\* non-integer token, from a user in AwaitingManualPages, ends with a format
\* message, makes no render and no Analyzer call, and no step of it changes
\* the user's session entry or the retained document.
C6_MalformedOverrideRejected ==
  /\ []C6_State
  /\ [][(MalformedOverride /\ update' = update)
          => UNCHANGED <<user_data, persist_dir>>]_vars

C6_Witness ==
  /\ MalformedOverride
  /\ LiveEntry
  /\ pc = "Rejected"
  /\ update.args = << <<"2">>, <<"x">> >>
  /\ sent = <<MSG_INVALID>>

\* ---------------------------------------------------------------------- C7
\* C7: a session entry is created only by the fallback of an upload whose
\* detection result is empty, and deleted only by a manual override whose
\* Analyzer produced a Brief that was delivered.
C7_EntryLifecycle ==
  [][\A u \in Users :
       /\ (user_data[u] = NoPath /\ user_data'[u] # NoPath)
            => (u = update.user /\ DetectedEmpty)
       /\ (user_data[u] # NoPath /\ user_data'[u] = NoPath)
            => /\ u = update.user
               /\ update.kind = "pages"
               /\ summary = BRIEF
               /\ EndsWithSummary(BRIEF)]_vars

\* ---------------------------------------------------------------------- C8
\* The Classifier responses that give no parsable text: a failed call, an
\* empty response, truncated JSON, a fence never closed.
UnusableResponses ==
  { Response("call", <<>>),
    Response("text", <<>>),
    Response("none", <<"[", "1", ",">>),
    Response("none", JSON_FENCE \o <<"\n", "[", "1", "]">>) }

\* C8: when the inference call fails, the response is empty or its text
\* cannot be parsed, detect_editorial_pages raises nothing and returns the
\* empty list, and the upload goes on to the fallback, ending in
\* AwaitingManualPages and not in Error.
C8_DetectionNeverRaises ==
  (update.kind = "document" /\ response \in UnusableResponses)
    => /\ detected_pages = PyList(<<>>)
       /\ exc = ""
       /\ pc \in {"hd_branch", "hd_persist", "hd_store", "AwaitingManualPages"}

C8_Witness ==
  /\ update.kind = "document"
  /\ response = Response("call", <<>>)
  /\ "detect_inference" \in failures
  /\ detected_pages = PyList(<<>>)
  /\ pc = "AwaitingManualPages"
  /\ last_pdf_path = PersistPath(update.file_id)

\* --------------------------------------------------------------------- C11
\* C11: for every document and every index list given to render_high_res,
\* the images returned are those of the given indices i with
\* 1 <= i <= page_count, in the order given; the other indices (0, negative
\* ones, those beyond the page count) are dropped and the call returns.
C11_HighResKeepsValidIndicesInOrder ==
  call.fn = "render_high_res"
    => LET valid == SelectSeq(call.page_numbers,
                              LAMBDA i : 1 <= i /\ i <= call.doc.page_count)
       IN  /\ Len(call.ret) = Len(valid)
           /\ \A k \in 1..Len(valid) :
                /\ call.ret[k].page = valid[k]
                /\ call.ret[k].file_id = call.doc.file_id
                /\ call.ret[k].dpi = HIGH_DPI

C11_Witness ==
  /\ call.fn = "render_high_res"
  /\ call.doc.page_count = 2
  /\ call.page_numbers = <<2, 0 - 1, 1>>
  /\ Len(call.ret) = 2
  /\ call.ret[1].page = 2
  /\ call.ret[2].page = 1

\* --------------------------------------------------------------------- C12
\* C12: in the fallback path the copy is made while the temporary directory
\* still holds the download, and the directory is removed only afterwards;
\* an entry that exists when handle_document has returned names a path in
\* the persistent directory, and the entry of a fallback holds the upload.
C12_State ==
  /\ pc \in {"hd_persist", "hd_store"}
       => temp_dir.exists /\ temp_dir.file = Upload(update.file_id)
  /\ pc = "hd_store" => FileAt(PersistPath(update.file_id)) = temp_dir.file
  /\ (update.kind = "document" /\ pc \in Ended
        /\ user_data[update.user] # NoPath)
       => user_data[update.user].dir = "persist"
  /\ pc = "AwaitingManualPages"
       => /\ ~temp_dir.exists
          /\ user_data[update.user] = PersistPath(update.file_id)
          /\ FileAt(user_data[update.user]) = Upload(update.file_id)

C12_CopyThenCleanup ==
  /\ []C12_State
  /\ [][(temp_dir.exists /\ ~temp_dir'.exists /\ pc = "hd_store")
          => /\ FileAt(PersistPath(update.file_id)) = temp_dir.file
             /\ persist_dir' = persist_dir]_vars

C12_Witness ==
  /\ pc = "AwaitingManualPages"
  /\ ~temp_dir.exists
  /\ user_data[update.user] = PersistPath(update.file_id)
  /\ FileAt(user_data[update.user]) = Upload(update.file_id)
  /\ Contains(sent, MSG_MANUAL)

\* --------------------------------------------------------------------- C13
\* C13: every render call of the run has left its document handle closed (or
\* never opened one): after a normal return, an empty result, and a raise
\* while a page is loaded or rasterized.
C13_HandleReleased ==
  \A k \in 1..Len(render_log) : render_log[k].handle # "open"

\* --------------------------------------------------------------------- C14
\* C14: a step of one user's operation leaves every other user's session
\* entry as it was, and leaves the file that entry names in place.
C14_NoCrossUserInterference ==
  [][\A v \in Users :
       v # update'.user
         => /\ user_data'[v] = user_data[v]
            /\ exists(user_data[v])
                 => persist_dir'[user_data[v].name] # NoFile]_vars

\* --------------------------------------------------------------------- C15
\* C15: between operations, every copy in the persistent directory is the
\* one named by some user's current session entry; a copy that a newer
\* upload replaced or an override consumed is there no more.
C15_RetainedCopiesAreReferenced ==
  pc \in Ended
    => \A f \in FileIds :
         persist_dir[f] # NoFile
           => \E u \in Users : user_data[u] = PersistPath(f)

\* --------------------------------------------------------------------- C16
\* C16: when the inference call of analyze_pages has failed in this run, the
\* Analyzer's result is the apology, no exception is pending, and the run is
\* in none of the failure states: it goes on to reply and ends in Done.
C16_AnalysisFailureGivesApology ==
  "analyze_inference" \in failures
    => /\ summary = APOLOGY
       /\ exc = ""
       /\ pc \notin {"hd_except", "Error", "Uncaught"}
       /\ pc = "Done" => sent[Len(sent)] = MsgSummary(APOLOGY)

C16_Witness ==
  /\ "analyze_inference" \in failures
  /\ pc = "Done"
  /\ update.kind \in {"document", "pages"}
  /\ sent[Len(sent)] = MsgSummary(APOLOGY)

\* --------------------------------------------------------------------- C17
\* C17: when the update was a document whose content type is not the PDF
\* type, the user has been shown the "send a PDF" message and nothing else
\* has happened: no temporary directory, no render, no Classifier response,
\* no Analyzer call.
C17_NonPdfRejectedWithMessage ==
  (update.kind = "document" /\ update.mime_type # PDF_MIME /\ pc \in Ended)
    => /\ sent = <<MSG_SEND_PDF>>
       /\ ~temp_dir.exists
       /\ render_log = <<>>
       /\ render_calls = <<>>
       /\ response = NoResponse
       /\ analyze_calls = 0

\* --------------------------------------------------------------------- C18
\* C18: in every state of an upload's run in which the message naming the
\* /pages command has been shown, the user's session entry names the copy
\* of that upload and the copy is there.
C18_PersistedBeforeInstruction ==
  (update.kind = "document" /\ Contains(sent, MSG_MANUAL))
    => /\ user_data[update.user] = PersistPath(update.file_id)
       /\ FileAt(user_data[update.user]) = Upload(update.file_id)

\* --------------------------------------------------------------------- C19
\* C19: whatever the response, the Classifier's value is a list; no
\* render_high_res call is given anything but a list; and a run whose
\* response was obtained and is no array does not end in Error.
C19_DetectionGivesList ==
  /\ detected_pages # NoValue => detected_pages.kind = "list"
  /\ \A k \in 1..Len(render_calls) :
       render_calls[k].page_numbers.kind = "list"
  /\ (update.kind = "document" /\ detected_pages # NoValue
        /\ failures \subseteq {"detect_inference", "not_a_list"})
       => pc \notin {"hd_except", "Error"}

\* --------------------------------------------------------------------- C20
\* C20: every render call of a run, low-res or high-res, on the automatic
\* path or on the manual-override path, is handed to the executor and does
\* not run on the event loop.
C20_RendersOffTheLoop ==
  \A k \in 1..Len(render_log) : render_log[k].thread = EXECUTOR

====
